---------------------------- MODULE Spec2Model ----------------------------
(***************************************************************************)
(* A model of github.com/davidmdm/conf: the value conversion engine        *)
(* (value.go), the lookup composition and the field registry with its      *)
(* Parse pass (cfg.go), and the option functions (options).                *)
(*                                                                         *)
(* Text is a sequence of one-character strings over Char.  The alphabet    *)
(* has a letter, a digit, the two delimiters of the grammar and a blank;   *)
(* signs, underscores, the digit 0 and base prefixes cannot be formed, so  *)
(* the integer grammar below is strconv's restricted to this alphabet.     *)
(***************************************************************************)
EXTENDS Integers, Sequences, FiniteSets, TLC

\* ------------------------------------------------------------------ bounds

\* Longest text handed to the conversion engine in ConvSpec.
MaxLen == 5

\* Largest number of lookup functions handed to MakeParser in LookupSpec.
MaxFuncs == 3

\* Largest number of arguments handed to CommandLineArgs in ArgsSpec.
MaxArgs == 3

\* ------------------------------------------------------------------- text

Char == {"a", "1", "=", ",", " "}

\* The byte of a character ([]byte(text), value.go:90).
Ord(c) ==
  CASE c = "a" -> 97
    [] c = "1" -> 49
    [] c = "=" -> 61
    [] c = "," -> 44
    [] c = " " -> 32
    [] OTHER -> 63

TextsUpTo(n) == UNION {[1..k -> Char] : k \in 0..n}

RECURSIVE TrimLeft(_)
TrimLeft(s) == IF s # <<>> /\ Head(s) = " " THEN TrimLeft(Tail(s)) ELSE s

RECURSIVE TrimRight(_)
TrimRight(s) ==
  IF s # <<>> /\ s[Len(s)] = " " THEN TrimRight(SubSeq(s, 1, Len(s) - 1)) ELSE s

\* strings.TrimSpace
TrimSpace(s) == TrimRight(TrimLeft(s))

\* Index of the first sep in s, 0 when there is none.
IndexOf(s, sep) ==
  IF \E i \in 1..Len(s) : s[i] = sep
  THEN CHOOSE i \in 1..Len(s) : s[i] = sep /\ \A j \in 1..(i - 1) : s[j] # sep
  ELSE 0

\* strings.Split(s, sep) for a one-character sep: at least one piece.
RECURSIVE Split(_, _)
Split(s, sep) ==
  LET i == IndexOf(s, sep)
  IN  IF i = 0 THEN <<s>>
      ELSE <<SubSeq(s, 1, i - 1)>> \o Split(SubSeq(s, i + 1, Len(s)), sep)

\* strings.Cut(s, sep): the text before and after the first sep.
Cut(s, sep) ==
  LET i == IndexOf(s, sep)
  IN  IF i = 0 THEN [before |-> s, after |-> <<>>, found |-> FALSE]
      ELSE [before |-> SubSeq(s, 1, i - 1),
            after  |-> SubSeq(s, i + 1, Len(s)),
            found  |-> TRUE]

UpperChar(c) == IF c = "a" THEN "A" ELSE c

\* strings.ToUpper
ToUpper(s) == [i \in 1..Len(s) |-> UpperChar(s[i])]

\* ----------------------------------------------------------------- errors

\* An error value: a message format, its argument, and the wrapped cause.
NoErr == [msg |-> "", arg |-> <<>>, cause |-> "", carg |-> <<>>]

Err(msg, arg) == [msg |-> msg, arg |-> arg, cause |-> "", carg |-> <<>>]

\* fmt.Errorf("<msg>: %s: %w", arg, e)
Wrap(msg, arg, e) == [msg |-> msg, arg |-> arg, cause |-> e.msg, carg |-> e.arg]

\* ------------------------------------------------------------------ types

\* A destination type: its reflect.Kind, its name, the decode capability of
\* a pointer to it ("none", "text", "binary", "both"), and its type arguments
\* (the element of a pointer or slice, the key and element of a map).
T(kind, name, um, args) == [kind |-> kind, name |-> name, um |-> um, args |-> args]

StringT == T("string", "string", "none", <<>>)
IntT    == T("int", "int", "none", <<>>)
BoolT   == T("bool", "bool", "none", <<>>)
ByteT   == T("uint8", "uint8", "none", <<>>)
StructT == T("struct", "struct { string }", "none", <<>>)
\* type MyByte uint8: a named byte type, so []MyByte is not []uint8.
MyByteT == T("uint8", "MyByte", "none", <<>>)
\* type CapText string, with (*CapText).UnmarshalText
CapTextT == T("string", "CapText", "text", <<>>)
\* type Base64Text string, with (*Base64Text).UnmarshalBinary
Base64TextT == T("string", "Base64Text", "binary", <<>>)
\* a string type with both capabilities, decoding as the two above
BothT == T("string", "Both", "both", <<>>)

PtrT(e)    == T("ptr", "ptr", "none", <<e>>)
SliceT(e)  == T("slice", "slice", "none", <<e>>)
MapT(k, e) == T("map", "map", "none", <<k, e>>)

Elem(t) == t.args[Len(t.args)]
Key(t)  == t.args[1]

\* ----------------------------------------------------------------- values

\* A value: its variant, and of the string, the number, the pointee or
\* elements, and the map entries the one its variant has.
V(tag, str, num, sub, ents) ==
  [tag |-> tag, str |-> str, num |-> num, sub |-> sub, ents |-> ents]

NilV       == V("nil", <<>>, 0, <<>>, {})
StrV(s)    == V("str", s, 0, <<>>, {})
IntV(n)    == V("int", <<>>, n, <<>>, {})
BoolV(b)   == V("bool", <<>>, IF b THEN 1 ELSE 0, <<>>, {})
StructV    == V("struct", <<>>, 0, <<>>, {})
PtrV(v)    == V("ptr", <<>>, 0, <<v>>, {})
SliceV(vs) == V("slice", <<>>, 0, vs, {})
MapV(ents) == V("map", <<>>, 0, <<>>, ents)

Entry(k, v) == [key |-> k, elem |-> v]

\* reflect.Zero / reflect.New(t).Elem()
Zero(t) ==
  CASE t.kind = "string" -> StrV(<<>>)
    [] t.kind = "int"    -> IntV(0)
    [] t.kind = "uint8"  -> IntV(0)
    [] t.kind = "bool"   -> BoolV(FALSE)
    [] t.kind = "struct" -> StructV
    [] OTHER             -> NilV

\* An insertion that keeps the entry a key already has.
SetMapIndexKeepFirst(target, k, v) ==
  IF \E e \in target : e.key = k THEN target ELSE target \cup {Entry(k, v)}

\* reflect's Value.SetMapIndex on the set of entries of a map
SetMapIndex(target, k, v) == {e \in target : e.key # k} \cup {Entry(k, v)}


\* --------------------------------------------------------- scalar grammars

\* The outcome of a conversion: the error (NoErr on success), the value the
\* converted location holds afterwards, and whether a runtime panic was
\* raised (err then holds the panic's message).
R(err, val, fault) == [err |-> err, val |-> val, fault |-> fault]

Digit == {"1", "2", "3", "4", "5", "6", "7", "8", "9"}

DigitVal(c) ==
  CASE c = "1" -> 1 [] c = "2" -> 2 [] c = "3" -> 3 [] c = "4" -> 4
    [] c = "5" -> 5 [] c = "6" -> 6 [] c = "7" -> 7 [] c = "8" -> 8
    [] c = "9" -> 9 [] OTHER -> 0

IsDecimal(s) == s # <<>> /\ \A i \in 1..Len(s) : s[i] \in Digit

RECURSIVE Decimal(_)
Decimal(s) ==
  IF s = <<>> THEN 0
  ELSE 10 * Decimal(SubSeq(s, 1, Len(s) - 1)) + DigitVal(s[Len(s)])

\* strconv.ParseInt(text, 0, 64) followed by v.SetInt
ParseInt(cur, text) ==
  IF IsDecimal(text) THEN R(NoErr, IntV(Decimal(text)), FALSE)
  ELSE R(Err("strconv.ParseInt: invalid syntax", text), cur, FALSE)

\* strconv.ParseUint(text, 0, 8) followed by v.SetUint
ParseUint(cur, text) ==
  IF ~IsDecimal(text)
  THEN R(Err("strconv.ParseUint: invalid syntax", text), cur, FALSE)
  ELSE IF Decimal(text) > 255
  THEN R(Err("strconv.ParseUint: value out of range", text), cur, FALSE)
  ELSE R(NoErr, IntV(Decimal(text)), FALSE)

\* strconv.ParseBool followed by v.SetBool: of its literals only "1" can be
\* written over Char.
ParseBool(cur, text) ==
  IF text = <<"1">> THEN R(NoErr, BoolV(TRUE), FALSE)
  ELSE R(Err("strconv.ParseBool: invalid syntax", text), cur, FALSE)

\* ------------------------------------------------------- custom decoders

\* (*CapText).UnmarshalText: the text in upper case, never an error.
UnmarshalText(cur, text) == R(NoErr, StrV(ToUpper(text)), FALSE)

\* The index of a character in the standard base64 alphabet, -1 outside it.
B64Index(c) == CASE c = "a" -> 26 [] c = "1" -> 53 [] OTHER -> -1

\* base64.RawStdEncoding.DecodeString on valid input: the bytes, each
\* written as its decimal numeral.
RECURSIVE B64Bytes(_)
B64Bytes(s) ==
  LET i(k) == B64Index(s[k])
      b1 == ToString(i(1) * 4 + (i(2) \div 16))
      b2 == ToString((i(2) % 16) * 16 + (i(3) \div 4))
      b3 == ToString((i(3) % 4) * 64 + i(4))
  IN  CASE Len(s) = 0 -> <<>>
        [] Len(s) = 2 -> <<b1>>
        [] Len(s) = 3 -> <<b1, b2>>
        [] OTHER      -> <<b1, b2, b3>> \o B64Bytes(SubSeq(s, 5, Len(s)))

\* (*Base64Text).UnmarshalBinary: an error leaves the value alone.
UnmarshalBinary(cur, text) ==
  IF (\E i \in 1..Len(text) : B64Index(text[i]) < 0) \/ Len(text) % 4 = 1
  THEN R(Err("illegal base64 data", text), cur, FALSE)
  ELSE R(NoErr, StrV(B64Bytes(text)), FALSE)

\* ------------------------------------------------------ conversion engine

RECURSIVE parse(_, _, _, _)
RECURSIVE parseItems(_, _, _)
RECURSIVE parseEntries(_, _, _, _)

\* The loop over the pieces of a sequence: the converted elements up to the
\* first piece that fails.
parseItems(et, items, i) ==
  IF i > Len(items) THEN R(NoErr, SliceV(<<>>), FALSE)
  ELSE LET r == parse(et, Zero(et), items[i], FALSE)
       IN  IF r.fault \/ r.err # NoErr THEN R(r.err, SliceV(<<>>), r.fault)
           ELSE LET rest == parseItems(et, items, i + 1)
                IN  R(rest.err, SliceV(<<r.val>> \o rest.val.sub), rest.fault)

\* The loop over the entries of a map, target being the map built so far.
parseEntries(t, elems, i, target) ==
  IF i > Len(elems) THEN R(NoErr, MapV(target), FALSE)
  ELSE LET c == Cut(elems[i], "=")
           k == parse(Key(t), Zero(Key(t)), c.before, FALSE)
           v == parse(Elem(t), Zero(Elem(t)), c.after, FALSE)
       IN  IF ~c.found THEN parseEntries(t, elems, i + 1, target)
           ELSE IF k.fault THEN R(k.err, MapV(target), TRUE)
           ELSE IF k.err # NoErr
           THEN R(Wrap("failed to parse key", c.before, k.err), MapV(target), FALSE)
           ELSE IF v.fault THEN R(v.err, MapV(target), TRUE)
           ELSE IF v.err # NoErr
           THEN R(Wrap("failed to parse value at key", c.before, v.err),
                  MapV(target), FALSE)
           ELSE parseEntries(t, elems, i + 1, SetMapIndex(target, k.val, v.val))

\* The slice case of parse.
parseSlice(t, cur, text, topLevel) ==
  IF ~topLevel THEN R(Err("cannot support deep slices", <<>>), cur, FALSE)
  ELSE IF Elem(t).kind = "uint8"
  THEN IF Elem(t) = ByteT
       THEN R(NoErr, SliceV([i \in 1..Len(text) |-> IntV(Ord(text[i]))]), FALSE)
       ELSE \* v.Set panics: []uint8 is not assignable to a slice of a named byte
            R(Err("panic", <<"reflect.Set: value of type []uint8 is not assignable">>),
              cur, TRUE)
  ELSE IF TrimSpace(text) = <<>> THEN R(NoErr, SliceV(<<>>), FALSE)
  ELSE LET r == parseItems(Elem(t), Split(text, ","), 1)
       IN  IF r.fault \/ r.err # NoErr THEN R(r.err, cur, r.fault)
           ELSE R(NoErr, r.val, FALSE)

\* The map case of parse.
parseMap(t, cur, text, topLevel) ==
  IF ~topLevel THEN R(Err("cannot support deep maps", <<>>), cur, FALSE)
  ELSE IF TrimSpace(text) = <<>> THEN R(NoErr, cur, FALSE)
  ELSE LET r == parseEntries(t, Split(TrimSpace(text), ","), 1, {})
       IN  IF r.fault \/ r.err # NoErr THEN R(r.err, cur, r.fault)
           ELSE R(NoErr, r.val, FALSE)

\* One turn of the pointer loop of parse: allocate when nil, then a custom
\* decoder of the pointer's type if there is one, else the pointed-to value.
parsePointer(t, cur, text, topLevel) ==
  LET e      == Elem(t)
      target == IF cur = NilV THEN Zero(e) ELSE cur.sub[1]
      r      == IF e.um \in {"text", "both"} THEN UnmarshalText(target, text)
                ELSE IF e.um = "binary" THEN UnmarshalBinary(target, text)
                ELSE parse(e, target, text, topLevel)
  IN  R(r.err, PtrV(r.val), r.fault)

\* parse(v, text, topLevel), v a location of type t holding cur.
parse(t, cur, text, topLevel) ==
  CASE t.kind = "ptr"    -> parsePointer(t, cur, text, topLevel)
    [] t.kind = "string" -> R(NoErr, StrV(text), FALSE)
    [] t.kind = "int"    -> ParseInt(cur, text)
    [] t.kind = "uint8"  -> ParseUint(cur, text)
    [] t.kind = "bool"   -> ParseBool(cur, text)
    [] t.kind = "slice"  -> parseSlice(t, cur, text, topLevel)
    [] t.kind = "map"    -> parseMap(t, cur, text, topLevel)
    [] OTHER -> R(Err("destination type not supported", <<t.name>>), cur, FALSE)

\* genericValue[T].Parse: parse on the handle, a non-nil pointer to the
\* destination; the destination's value afterwards is what it points to.
valueParse(t, cur, text) ==
  LET r == parse(PtrT(t), PtrV(cur), text, TRUE)
  IN  R(r.err, r.val.sub[1], r.fault)

\* genericValue[T].Set
valueSet(cur, value) == value

\* ------------------------------------------------------------------ state

VARIABLES
  lookup,    \* parser.lookup: the lookup functions joinLookupFuncs closes over
  fields,    \* parser.fields: name -> field
  dst,       \* the caller's destination variables
  pc,        \* "idle", "parsing" (inside the loop of Parse) or "done"
  errs,      \* errs of Parse, in the order the fields failed
  order,     \* the names the loop of Parse has processed, in its order
  result,    \* the error Parse returned
  pre,       \* the destinations when Parse was called
  ctype,     \* ConvSpec: the type of the destination
  ctext,     \* ConvSpec: the text to convert
  cval,      \* ConvSpec: the destination
  cpre,      \* ConvSpec: the destination before the conversion
  cres,      \* ConvSpec: what genericValue.Parse returned
  cpc,       \* ConvSpec: "ready" or "done"
  funcs,     \* LookupSpec: the arguments of MakeParser
  environ,   \* LookupSpec: os.LookupEnv, the process environment
  lkey,      \* LookupSpec: the name looked up
  lres,      \* LookupSpec: what the parser's lookup returned
  lpc,       \* LookupSpec: "made" or "done"
  argv,      \* ArgsSpec: the arguments of CommandLineArgs
  osArgs     \* ArgsSpec: os.Args[1:], the arguments of the process

parseVars  == <<lookup, fields, dst, pc, errs, order, result, pre>>
convVars   == <<ctype, ctext, cval, cpre, cres, cpc>>
lookupVars == <<funcs, environ, lkey, lres, lpc>>
argsVars   == <<argv, osArgs>>
vars       == <<parseVars, convVars, lookupVars, argsVars>>

\* ----------------------------------------------------------------- lookup

\* What one call of a LookupFunc does: return (text, ok), or panic.
Outcome(text, ok, panic) == [text |-> text, ok |-> ok, panic |-> panic]

NotFound == Outcome(<<>>, FALSE, FALSE)
Panics   == Outcome(<<>>, FALSE, TRUE)
Found(text) == Outcome(text, TRUE, FALSE)

\* A LookupFunc value: nil, or a function given by its table.
Func(tab)    == [tab |-> tab, nil |-> FALSE]
NilFunc(tab) == [tab |-> tab, nil |-> TRUE]

\* The result of a lookup: (text, ok), whether it panicked, and the number
\* of functions that were called.
L(text, ok, panic, calls) == [text |-> text, ok |-> ok, panic |-> panic, calls |-> calls]

\* The loop of the function joinLookupFuncs returns, from the i-th function
\* on; value and ok are the named results as assigned so far.
RECURSIVE joinLoop(_, _, _, _, _)
joinLoop(fns, key, i, value, ok) ==
  IF i > Len(fns) THEN L(value, ok, FALSE, i - 1)
  ELSE LET o == fns[i].tab[key]
       IN  IF o.panic THEN L(<<>>, FALSE, TRUE, i)
           ELSE IF o.ok THEN L(o.text, TRUE, FALSE, i)
           ELSE joinLoop(fns, key, i + 1, o.text, o.ok)

\* A join that goes on past a source that found an empty text.
RECURSIVE joinLoopSkipEmpty(_, _, _, _, _)
joinLoopSkipEmpty(fns, key, i, value, ok) ==
  IF i > Len(fns) THEN L(value, ok, FALSE, i - 1)
  ELSE LET o == fns[i].tab[key]
       IN  IF o.panic THEN L(<<>>, FALSE, TRUE, i)
           ELSE IF o.ok /\ o.text # <<>> THEN L(o.text, TRUE, FALSE, i)
           ELSE joinLoopSkipEmpty(fns, key, i + 1, o.text, o.ok)

joinLookupFuncsSkipEmpty(fns, key) == joinLoopSkipEmpty(fns, key, 1, <<>>, FALSE)

joinLookupFuncs(fns, key) == joinLoop(fns, key, 1, <<>>, FALSE)

\* MakeParser's choice of parser.lookup: the non-nil functions, or
\* os.LookupEnv when there is none.
MakeParser(fs, env) ==
  LET lookupFuncs == SelectSeq(fs, LAMBDA f : ~f.nil)
  IN  IF Len(lookupFuncs) > 0 THEN lookupFuncs ELSE <<env>>

\* -------------------------------------------------------- CommandLineArgs

\* strings.HasPrefix(s, c) for a one-character prefix
HasPrefix(s, c) == s # <<>> /\ Head(s) = c

\* strings.TrimLeft(s, c) for a one-character cutset
RECURSIVE TrimLeftCutset(_, _)
TrimLeftCutset(s, c) ==
  IF s # <<>> /\ Head(s) = c THEN TrimLeftCutset(Tail(s), c) ELSE s

LowerChar(c) == CASE c = "A" -> "a" [] c = "B" -> "b" [] OTHER -> c

\* strings.ToLower
ToLower(s) == [i \in 1..Len(s) |-> LowerChar(s[i])]

\* strings.ReplaceAll(s, old, new) for one-character old and new
ReplaceAll(s, old, new) == [i \in 1..Len(s) |-> IF s[i] = old THEN new ELSE s[i]]

\* strings.Join(elems, sep)
RECURSIVE Join(_, _)
Join(elems, sep) ==
  IF elems = <<>> THEN <<>>
  ELSE IF Len(elems) = 1 THEN elems[1]
  ELSE elems[1] \o <<sep>> \o Join(Tail(elems), sep)

\* The text "true".
TrueText == <<"t", "r", "u", "e">>

\* m[flag] of a map[string][]string: nil, of length 0, for a missing key.
MapGet(m, flag) == IF flag \in DOMAIN m THEN m[flag] ELSE <<>>

\* m[flag] = values
MapPut(m, flag, values) ==
  [x \in DOMAIN m \cup {flag} |-> IF x = flag THEN values ELSE m[x]]

\* The loop of CommandLineArgs over list from its i-th argument on, with the
\* map m and the pending flag as they are: the map when the loop is over.
RECURSIVE argsLoop(_, _, _, _)
argsLoop(list, i, m, flag) ==
  IF i > Len(list) THEN m
  ELSE LET arg == list[i]
       IN  IF HasPrefix(arg, "-")
           THEN LET m1 == IF flag # <<>> /\ Len(MapGet(m, flag)) = 0
                          THEN MapPut(m, flag, <<TrueText>>)
                          ELSE m
                    fl == ToLower(TrimLeftCutset(arg, "-"))
                    c  == Cut(fl, "=")
                IN  IF c.found
                    THEN argsLoop(list, i + 1,
                                  MapPut(m1, c.before,
                                         Append(MapGet(m1, c.before), c.after)),
                                  <<>>)
                    ELSE argsLoop(list, i + 1, m1, fl)
           ELSE IF flag = <<>> THEN argsLoop(list, i + 1, m, flag)
           ELSE argsLoop(list, i + 1, MapPut(m, flag, Append(MapGet(m, flag), arg)),
                         <<>>)

\* The map CommandLineArgs(list...) builds; without arguments it reads the
\* arguments of the process.
flagMap(list, procArgs) ==
  argsLoop(IF Len(list) = 0 THEN procArgs ELSE list, 1, <<>>, <<>>)

\* The function CommandLineArgs returns, called with name.
flagLookup(m, name) ==
  LET n == ReplaceAll(ToLower(name), "_", "-")
  IN  IF n \in DOMAIN m THEN Found(Join(m[n], ",")) ELSE NotFound

\* CommandLineArgs(list...) as a LookupFunc over the names keys.
CommandLineArgs(list, procArgs, keys) ==
  Func([k \in keys |-> flagLookup(flagMap(list, procArgs), k)])

\* ---------------------------------------------------------------- options

\* var options options
ZeroOptions ==
  [required |-> FALSE, nonEmpty |-> FALSE, skipEmpty |-> FALSE,
   set |-> FALSE, fallback |-> NilV]

Required(value, o)  == [o EXCEPT !.required = value]
NonEmpty(value, o)  == [o EXCEPT !.nonEmpty = value]
SkipEmpty(value, o) == [o EXCEPT !.skipEmpty = value]
\* o.fallback = value: an interface holding a T, never nil
Default(value, o)   == [o EXCEPT !.set = TRUE, !.fallback = value]

\* One Option[T]: the function and its argument.
Opt(fn, flag, dflt) == [fn |-> fn, flag |-> flag, dflt |-> dflt]

apply(opt, o) ==
  CASE opt.fn = "Required"  -> Required(opt.flag, o)
    [] opt.fn = "NonEmpty"  -> NonEmpty(opt.flag, o)
    [] opt.fn = "SkipEmpty" -> SkipEmpty(opt.flag, o)
    [] OTHER                -> Default(opt.dflt, o)

\* The loop of Var over opts.
RECURSIVE applyAll(_, _)
applyAll(opts, o) ==
  IF opts = <<>> THEN o ELSE applyAll(Tail(opts), apply(Head(opts), o))

\* ------------------------------------------------------------ destinations

\* The caller's variables: x int, s string, m map[string]int, y []MyByte,
\* p *[]MyByte.
DstIds == {"x", "s", "m", "y", "p"}

DstType(d) ==
  CASE d = "x" -> IntT
    [] d = "s" -> StringT
    [] d = "m" -> MapT(StringT, IntT)
    [] d = "y" -> SliceT(MyByteT)
    [] OTHER   -> PtrT(SliceT(MyByteT))

\* A value of type t that no conversion and no zero value produces.
RECURSIVE Old(_)
Old(t) ==
  CASE t.kind = "string" -> StrV(<<"o">>)
    [] t.kind = "int"    -> IntV(5)
    [] t.kind = "uint8"  -> IntV(5)
    [] t.kind = "bool"   -> BoolV(TRUE)
    [] t.kind = "struct" -> StructV
    [] t.kind = "ptr"    -> PtrV(Old(Elem(t)))
    [] t.kind = "slice"  -> SliceV(<<Old(Elem(t))>>)
    [] OTHER             -> MapV({Entry(Old(Key(t)), Old(Elem(t)))})

\* The value a caller passes to Default for a destination of type t.
RECURSIVE Fallback(_)
Fallback(t) ==
  CASE t.kind = "string" -> StrV(<<"d">>)
    [] t.kind = "int"    -> IntV(9)
    [] t.kind = "uint8"  -> IntV(9)
    [] t.kind = "ptr"    -> PtrV(Fallback(Elem(t)))
    [] t.kind = "slice"  -> SliceV(<<Fallback(Elem(t))>>)
    [] OTHER             -> MapV({Entry(Fallback(Key(t)), Fallback(Elem(t)))})

\* What a variable of type t may hold when Parse is called: a value the
\* caller gave it, and for a pointer also nil.
Held(t) == IF t.kind = "ptr" THEN {NilV, Old(t)} ELSE {Old(t)}

\* ------------------------------------------------------------------ Parse

\* The deferred function of the closure in Parse: a panic becomes the
\* closure's error, fmt.Errorf("%v", recovered).
recover(r) == IF r.fault THEN R(Err("%v", r.err.arg), r.val, FALSE) ELSE r

\* A body that applies the fallback of a missing field before it looks at
\* required.
fieldBodyFallbackFirst(name, field, cur) ==
  LET l == joinLookupFuncs(lookup, name)
      t == DstType(field.value)
  IN  IF l.panic THEN R(Err("panic", <<"lookup panicked">>), cur, TRUE)
      ELSE IF l.ok /\ l.text = <<>> /\ field.opts.nonEmpty
      THEN R(Err("field is declared but empty: cannot be empty", <<>>), cur, FALSE)
      ELSE IF l.ok /\ l.text = <<>> /\ field.opts.skipEmpty
      THEN R(NoErr, cur, FALSE)
      ELSE IF ~l.ok
      THEN IF field.opts.set
           THEN R(NoErr, valueSet(cur, field.opts.fallback), FALSE)
           ELSE IF field.opts.required THEN R(Err("field is required", <<>>), cur, FALSE)
           ELSE R(NoErr, cur, FALSE)
      ELSE valueParse(t, cur, l.text)

\* A body that looks at skipEmpty before nonEmpty.
fieldBodySkipFirst(name, field, cur) ==
  LET l == joinLookupFuncs(lookup, name)
      t == DstType(field.value)
  IN  IF l.panic THEN R(Err("panic", <<"lookup panicked">>), cur, TRUE)
      ELSE IF l.ok /\ l.text = <<>> /\ field.opts.skipEmpty
      THEN R(NoErr, cur, FALSE)
      ELSE IF l.ok /\ l.text = <<>> /\ field.opts.nonEmpty
      THEN R(Err("field is declared but empty: cannot be empty", <<>>), cur, FALSE)
      ELSE IF ~l.ok
      THEN IF field.opts.required THEN R(Err("field is required", <<>>), cur, FALSE)
           ELSE IF field.opts.set
           THEN R(NoErr, valueSet(cur, field.opts.fallback), FALSE)
           ELSE R(NoErr, cur, FALSE)
      ELSE valueParse(t, cur, l.text)

\* The body of the closure Parse runs for one field, cur being the value of
\* the field's destination.
fieldBody(name, field, cur) ==
  LET l == joinLookupFuncs(lookup, name)
      t == DstType(field.value)
  IN  IF l.panic THEN R(Err("panic", <<"lookup panicked">>), cur, TRUE)
      ELSE IF l.ok /\ l.text = <<>> /\ field.opts.nonEmpty
      THEN R(Err("field is declared but empty: cannot be empty", <<>>), cur, FALSE)
      ELSE IF l.ok /\ l.text = <<>> /\ field.opts.skipEmpty
      THEN R(NoErr, cur, FALSE)
      ELSE IF ~l.ok
      THEN IF field.opts.required THEN R(Err("field is required", <<>>), cur, FALSE)
           ELSE IF field.opts.set
           THEN R(NoErr, valueSet(cur, field.opts.fallback), FALSE)
           ELSE R(NoErr, cur, FALSE)
      ELSE valueParse(t, cur, l.text)

parseField(name, field, cur) == recover(fieldBody(name, field, cur))

\* The bytes of a character of a name, for the lexical order of names.
NameOrd(c) == Ord(c)

\* a < b as Go strings
LexLess(a, b) ==
  \E i \in 1..(Len(a) + 1) :
    /\ i <= Len(b)
    /\ \A j \in 1..(i - 1) : a[j] = b[j]
    /\ i = Len(a) + 1 \/ NameOrd(a[i]) < NameOrd(b[i])

\* The records of es in ascending order of field name.
RECURSIVE SortByName(_)
SortByName(es) ==
  IF es = <<>> THEN <<>>
  ELSE LET i == CHOOSE i \in 1..Len(es) :
                  \A j \in 1..Len(es) : ~LexLess(es[j].name, es[i].name)
       IN  <<es[i]>> \o SortByName(SubSeq(es, 1, i - 1) \o SubSeq(es, i + 1, Len(es)))

\* xerr.MultiErrOrderedFrom("failed to parse variable(s)", errs...): nil (the
\* empty sequence) when there is no error, else the records sorted.
MultiErrOrderedFrom(es) == SortByName(es)

\* A return without the ordering.
parseReturnUnordered(es) == es

\* return xerr.MultiErrOrderedFrom("failed to parse variable(s)", errs...)
parseReturn(es) == MultiErrOrderedFrom(es)

Range(f) == {f[i] : i \in DOMAIN f}

\* fmt.Errorf("%s: %w", name, err)
Record(name, err) == [name |-> name, err |-> err]

\* Var(parser, p, name, opts...), p pointing at destination d
Var(d, name, opts) ==
  /\ pc = "idle"
  /\ fields' = [n \in DOMAIN fields \cup {name} |->
                  IF n = name
                  THEN [value |-> d, opts |-> applyAll(opts, ZeroOptions)]
                  ELSE fields[n]]
  /\ UNCHANGED <<lookup, dst, pc, errs, order, result, pre>>
  /\ UNCHANGED <<convVars, lookupVars, argsVars>>

\* Parse is called: errs is made; with no field the loop is over at once.
ParseCall ==
  /\ pc = "idle"
  /\ errs' = <<>>
  /\ order' = <<>>
  /\ pre' = dst
  /\ IF DOMAIN fields = {}
     THEN pc' = "done" /\ result' = parseReturn(<<>>)
     ELSE pc' = "parsing" /\ result' = result
  /\ UNCHANGED <<lookup, fields, dst>>
  /\ UNCHANGED <<convVars, lookupVars, argsVars>>

\* One turn of the loop of Parse, for a field the map iteration yields; after
\* the last field Parse returns the ordered error.
ParseField(name) ==
  /\ pc = "parsing"
  /\ name \in DOMAIN fields
  /\ name \notin Range(order)
  /\ LET field == fields[name]
         r     == parseField(name, field, dst[field.value])
         errs1 == IF r.err # NoErr THEN Append(errs, Record(name, r.err)) ELSE errs
     IN  /\ dst' = [dst EXCEPT ![field.value] = r.val]
         /\ order' = Append(order, name)
         /\ IF r.fault
            THEN \* a panic nothing recovered leaves Parse
                 pc' = "panicked" /\ errs' = errs /\ result' = result
            ELSE /\ errs' = errs1
                 /\ IF Range(order) \cup {name} = DOMAIN fields
                    THEN pc' = "done" /\ result' = parseReturn(errs1)
                    ELSE pc' = pc /\ result' = result
  /\ UNCHANGED <<lookup, fields, pre>>
  /\ UNCHANGED <<convVars, lookupVars, argsVars>>

\* ------------------------------------------------------- genericValue.Parse

\* The destination types of ConvSpec.
ConvTypes ==
  {StringT, IntT, BoolT, StructT, CapTextT, Base64TextT, BothT,
   PtrT(IntT), PtrT(CapTextT), PtrT(StructT),
   SliceT(StringT), SliceT(IntT), SliceT(ByteT), SliceT(MyByteT),
   SliceT(CapTextT), SliceT(PtrT(CapTextT)), SliceT(SliceT(IntT)),
   MapT(StringT, IntT), MapT(StringT, StringT), MapT(BoolT, IntT),
   MapT(IntT, BoolT), MapT(CapTextT, PtrT(Base64TextT)),
   MapT(StringT, MapT(StringT, IntT))}

\* v.Parse(text) on a destination of type ctype
Convert ==
  /\ cpc = "ready"
  /\ LET r == valueParse(ctype, cval, ctext)
     IN  /\ cval' = r.val
         /\ cres' = [err |-> r.err, fault |-> r.fault]
  /\ cpc' = "done"
  /\ UNCHANGED <<ctype, ctext, cpre>>
  /\ UNCHANGED <<parseVars, lookupVars, argsVars>>

\* The parser's lookup is called with key.
Look(key) ==
  /\ lpc = "made"
  /\ lkey' = key
  /\ lres' = joinLookupFuncs(lookup, key)
  /\ lpc' = "done"
  /\ UNCHANGED <<funcs, environ>>
  /\ UNCHANGED <<parseVars, convVars, argsVars>>

\* --------------------------------------------------------- specifications

ParseIdle ==
  /\ lookup = <<>> /\ fields = <<>> /\ dst = <<>> /\ pc = "off"
  /\ errs = <<>> /\ order = <<>> /\ result = <<>> /\ pre = <<>>

ConvIdle ==
  /\ ctype = StringT /\ ctext = <<>> /\ cval = NilV /\ cpre = NilV
  /\ cres = [err |-> NoErr, fault |-> FALSE] /\ cpc = "off"

LookupIdle ==
  /\ funcs = <<>> /\ environ = <<>> /\ lkey = <<>>
  /\ lres = L(<<>>, FALSE, FALSE, 0) /\ lpc = "off"
  /\ argv = <<>> /\ osArgs = <<>>

\* MakeParser(f) for a lookup function f over names that answers each name
\* with one of outcomes; no field is registered, the destinations hold what
\* their callers left in them.
ParseInit(names, outcomes, dsts) ==
  /\ \E tab \in [names -> outcomes] : lookup = MakeParser(<<Func(tab)>>, Func(tab))
  /\ fields = <<>>
  /\ dst \in {f \in [dsts -> UNION {Held(DstType(d)) : d \in dsts}] :
                \A d \in dsts : f[d] \in Held(DstType(d))}
  /\ pc = "idle"
  /\ errs = <<>> /\ order = <<>> /\ result = <<>>
  /\ pre = dst

\* Option lists: each of Required(true), NonEmpty(true), SkipEmpty(true) and
\* Default(v) present or not.
OptionList(r, ne, se, df, d) ==
  (IF r THEN <<Opt("Required", TRUE, NilV)>> ELSE <<>>)
  \o (IF ne THEN <<Opt("NonEmpty", TRUE, NilV)>> ELSE <<>>)
  \o (IF se THEN <<Opt("SkipEmpty", TRUE, NilV)>> ELSE <<>>)
  \o (IF df THEN <<Opt("Default", TRUE, Fallback(DstType(d)))>> ELSE <<>>)

OptionLists(d) ==
  {OptionList(r, ne, se, df, d) : r \in BOOLEAN, ne \in BOOLEAN,
                                  se \in BOOLEAN, df \in BOOLEAN}

FewOptionLists(d) ==
  {OptionList(FALSE, FALSE, FALSE, FALSE, d),
   OptionList(TRUE, FALSE, FALSE, FALSE, d),
   OptionList(FALSE, FALSE, FALSE, TRUE, d)}

PolicyNames == {<<"a">>, <<"a", "1">>}
Names == PolicyNames \cup {<<"1">>}

PolicyOutcomes ==
  {Panics, NotFound, Found(<<>>), Found(<<"1">>), Found(<<"a", "=", "1">>)}
OrderOutcomes == {Panics, NotFound, Found(<<"1">>)}

PolicyDsts == {"x", "s", "m"}
OrderDsts == {"x", "y", "p"}

\* Spec: one Parse of a registry of up to two fields, every option list.
Init == ParseInit(PolicyNames, PolicyOutcomes, PolicyDsts) /\ ConvIdle /\ LookupIdle

Next ==
  \/ \E d \in PolicyDsts, name \in PolicyNames :
       \E opts \in OptionLists(d) : Var(d, name, opts)
  \/ ParseCall
  \/ \E name \in PolicyNames : ParseField(name)

Spec == Init /\ [][Next]_vars

\* OrderSpec: one Parse of a registry of up to three fields that may share
\* destinations, a few option lists.
OrderInit == ParseInit(Names, OrderOutcomes, OrderDsts) /\ ConvIdle /\ LookupIdle

OrderNext ==
  \/ \E d \in OrderDsts, name \in Names :
       \E opts \in FewOptionLists(d) : Var(d, name, opts)
  \/ ParseCall
  \/ \E name \in Names : ParseField(name)

OrderSpec == OrderInit /\ [][OrderNext]_vars

\* ConvSpec: one conversion of a text into a destination.
ConvInit ==
  /\ ctype \in ConvTypes
  /\ ctext \in TextsUpTo(MaxLen)
  /\ cval \in {Zero(ctype), Old(ctype)}
  /\ cpre = cval
  /\ cres = [err |-> NoErr, fault |-> FALSE]
  /\ cpc = "ready"
  /\ ParseIdle /\ LookupIdle

ConvNext == Convert

ConvSpec == ConvInit /\ [][ConvNext]_vars

\* LookupSpec: MakeParser(funcs...) and one call of the parser's lookup.
LookupKeys == {<<"a">>}

LookupOutcomes ==
  {Panics, NotFound, Outcome(<<"1">>, FALSE, FALSE), Found(<<>>), Found(<<"1">>)}

LookupFuncs ==
  {Func(tab) : tab \in [LookupKeys -> LookupOutcomes]}
  \cup {NilFunc([k \in LookupKeys |-> NotFound])}

LookupInit ==
  /\ funcs \in UNION {[1..k -> LookupFuncs] : k \in 0..MaxFuncs}
  /\ environ \in {Func([k \in LookupKeys |-> o]) : o \in {NotFound, Found(<<>>), Found(<<"a">>)}}
  /\ lookup = MakeParser(funcs, environ)
  /\ lkey = <<>>
  /\ lres = L(<<>>, FALSE, FALSE, 0)
  /\ lpc = "made"
  /\ fields = <<>> /\ dst = <<>> /\ pc = "off"
  /\ errs = <<>> /\ order = <<>> /\ result = <<>> /\ pre = <<>>
  /\ ConvIdle
  /\ argv = <<>> /\ osArgs = <<>>

LookupNext == \E key \in LookupKeys : Look(key)

LookupSpec == LookupInit /\ [][LookupNext]_vars

\* ArgsSpec: MakeParser(CommandLineArgs(argv...)) and one call of the parser's
\* lookup.
ArgTokens ==
  {<<"-", "a">>, <<"-", "-", "A">>, <<"-", "a", "_", "b">>,
   <<"-", "b", "=", "1">>, <<"1">>, <<"-", "-">>}

ArgKeys ==
  {<<"a">>, <<"A">>, <<"a", "-", "b">>, <<"A", "_", "B">>, <<"b">>, <<"1">>}

ArgsInit ==
  /\ argv \in UNION {[1..k -> ArgTokens] : k \in 0..MaxArgs}
  /\ osArgs \in {<<>>, <<<<"-", "b", "=", "1">>, <<"-", "a">>, <<"1">>>>}
  /\ funcs = <<CommandLineArgs(argv, osArgs, ArgKeys)>>
  /\ environ = Func([k \in ArgKeys |-> NotFound])
  /\ lookup = MakeParser(funcs, environ)
  /\ lkey = <<>>
  /\ lres = L(<<>>, FALSE, FALSE, 0)
  /\ lpc = "made"
  /\ fields = <<>> /\ dst = <<>> /\ pc = "off"
  /\ errs = <<>> /\ order = <<>> /\ result = <<>> /\ pre = <<>>
  /\ ConvIdle

ArgsNext == \E key \in ArgKeys : Look(key)

ArgsSpec == ArgsInit /\ [][ArgsNext]_vars

\* ----------------------------------------------------------------- claims

\* The sources MakeParser was given, the nil ones aside.
Supplied == SelectSeq(funcs, LAMBDA f : ~f.nil)

\* What the i-th supplied source answers for the name looked up.
Answer(i) == Supplied[i].tab[lkey]

\* C7: a parser made from one or more sources looks a name up in the sources
\* in the order they were supplied: when it returns, it reports found exactly
\* when some source reports found; it then returns the text of the first such
\* source, empty or not, having called no source after it; and it reports
\* not-found only after calling every source.
C7_FirstFoundWins ==
  (lpc = "done" /\ Len(Supplied) >= 1 /\ ~lres.panic) =>
    /\ lres.ok <=> \E i \in 1..Len(Supplied) : Answer(i).ok
    /\ lres.ok =>
         \E i \in 1..Len(Supplied) :
           /\ Answer(i).ok
           /\ \A j \in 1..(i - 1) : ~Answer(j).ok
           /\ lres.text = Answer(i).text
           /\ lres.calls = i
    /\ ~lres.ok => lres.calls = Len(Supplied)

\* C7 witness: the second of three sources found an empty text after the
\* first reported not-found; the third, which has a text, was not called.
C7_Witness ==
  /\ lpc = "done" /\ Len(Supplied) = 3
  /\ ~Answer(1).ok /\ ~Answer(1).panic
  /\ Answer(2).ok /\ Answer(2).text = <<>>
  /\ Answer(3).ok /\ Answer(3).text # <<>>
  /\ lres.ok /\ lres.text = <<>> /\ lres.calls = 2

\* C8 (as claimed): converting a text that is empty after trimming into a
\* top-level map succeeds and leaves a map with no entries in the
\* destination, whatever it held before.
C8_BlankTextYieldsEmptyMap ==
  (cpc = "done" /\ ctype.kind = "map" /\ TrimSpace(ctext) = <<>>) =>
    cres.err = NoErr /\ ~cres.fault /\ cval.ents = {}

\* The custom decoder of a type with a decode capability: text-decode first.
Decode(t, cur, text) ==
  IF t.um \in {"text", "both"} THEN UnmarshalText(cur, text)
  ELSE UnmarshalBinary(cur, text)

\* A value of type t is converted by a custom decoder: t has one, or t is a
\* pointer to a type that has one.
Custom(t) == t.um # "none" \/ (t.kind = "ptr" /\ Elem(t).um # "none")

\* What the custom decoder makes of text for a fresh value of type t.
Decoded(t, text) ==
  IF t.um # "none" THEN Decode(t, Zero(t), text)
  ELSE LET r == Decode(Elem(t), Zero(Elem(t)), text)
       IN  R(r.err, PtrV(r.val), r.fault)

\* The pieces of the converted text and the entries among them.
Pieces == Split(ctext, ",")
Entries == Split(TrimSpace(ctext), ",")
WithEq == {i \in 1..Len(Entries) : IndexOf(Entries[i], "=") > 0}
KeyText(i) == Cut(Entries[i], "=").before
ValText(i) == Cut(Entries[i], "=").after

\* C9 (as claimed): a value whose type has a custom decode capability is
\* converted by it, text-decode before binary-decode, instead of by the
\* built-in grammar, be it the destination, an element of a sequence, or a
\* key or a value of a map.
C9_CustomDecodeEverywhere ==
  cpc = "done" =>
    /\ ctype.um # "none" =>
         LET r == Decode(ctype, cpre, ctext)
         IN  cres.err = r.err /\ cval = r.val
    /\ (ctype.kind = "slice" /\ Custom(Elem(ctype)) /\ TrimSpace(ctext) # <<>>
        /\ \A i \in 1..Len(Pieces) : Decoded(Elem(ctype), Pieces[i]).err = NoErr) =>
         /\ cres.err = NoErr
         /\ cval = SliceV([i \in 1..Len(Pieces) |-> Decoded(Elem(ctype), Pieces[i]).val])
    /\ (ctype.kind = "map" /\ Custom(Key(ctype)) /\ Custom(Elem(ctype))
        /\ TrimSpace(ctext) # <<>>
        /\ \A i \in WithEq : /\ Decoded(Key(ctype), KeyText(i)).err = NoErr
                             /\ Decoded(Elem(ctype), ValText(i)).err = NoErr) =>
         /\ cres.err = NoErr
         /\ \A i \in WithEq :
              \E e \in cval.ents : e.key = Decoded(Key(ctype), KeyText(i)).val

\* C6 (as claimed): a conversion that fails leaves the destination as it
\* was, for scalars, pointers set or unset, sequences and maps.
C6_FailureLeavesDestination ==
  (cpc = "done" /\ cres.err # NoErr) => cval = cpre

\* The conversions of the key and of the value of the i-th entry.
KeyOf(i) == parse(Key(ctype), Zero(Key(ctype)), KeyText(i), FALSE)
ValOf(i) == parse(Elem(ctype), Zero(Elem(ctype)), ValText(i), FALSE)

EntryFails(i) == KeyOf(i).err # NoErr \/ ValOf(i).err # NoErr

\* C10: converting a text that is not empty after trimming into a top-level
\* map splits the trimmed text on ',', drops the entries without '=' and
\* cuts each other entry at its first '='.  When every key and value
\* converts, the destination is assigned exactly the map of the converted
\* pairs in which a key has the value of its last entry.  Otherwise the
\* first entry that fails decides the error: "failed to parse key: <key>:
\* <cause>" when its key fails, else "failed to parse value at key: <key>:
\* <cause>".
C10_MapConversion ==
  (cpc = "done" /\ ctype.kind = "map" /\ TrimSpace(ctext) # <<>>) =>
    IF \A i \in WithEq : ~EntryFails(i)
    THEN /\ cres.err = NoErr
         /\ cval = MapV({Entry(KeyOf(i).val, ValOf(i).val) :
                           i \in {k \in WithEq :
                                    \A j \in WithEq :
                                      j > k => KeyOf(j).val # KeyOf(k).val}})
    ELSE LET i == CHOOSE k \in WithEq :
                    EntryFails(k) /\ \A j \in WithEq : j < k => ~EntryFails(j)
         IN  cres.err =
               IF KeyOf(i).err # NoErr
               THEN Wrap("failed to parse key", KeyText(i), KeyOf(i).err)
               ELSE Wrap("failed to parse value at key", KeyText(i), ValOf(i).err)

\* C10 witness: a conversion into a map succeeded on a text with an entry
\* without '=' and with two entries of one key and different values.
C10_Witness ==
  /\ cpc = "done" /\ ctype.kind = "map" /\ cres.err = NoErr
  /\ \E i \in 1..Len(Entries) : i \notin WithEq
  /\ \E i \in WithEq, j \in WithEq :
       i < j /\ KeyText(i) = KeyText(j) /\ ValText(i) # ValText(j)
  /\ Cardinality(cval.ents) = 1

\* The registered names, and what the parser's one lookup function answers.
Registered == DOMAIN fields
TableAnswer(n) == lookup[1].tab[n]

\* No other registered field has the destination of n.
Alone(n) == \A m \in Registered \ {n} : fields[m].value # fields[n].value

\* The returned error has a record for n; the error of that record.
Failed(n) == \E i \in 1..Len(result) : result[i].name = n
ErrorOf(n) == (CHOOSE e \in Range(result) : e.name = n).err

\* C3: after Parse, a field whose lookup reported not-found has failed with
\* "field is required" and kept its destination when it is required, fallback
\* or not; else has succeeded with its destination equal to the fallback when
\* one is declared; else has succeeded with its destination as it was before
\* the call -- whatever nonEmpty and skipEmpty are.  (A destination is
\* compared when no other field shares it.)
C3_NotFoundPolicy ==
  pc = "done" =>
    \A n \in Registered :
      LET a == TableAnswer(n)
          f == fields[n]
          d == f.value
      IN  (~a.ok /\ ~a.panic) =>
            IF f.opts.required
            THEN /\ Failed(n) /\ ErrorOf(n) = Err("field is required", <<>>)
                 /\ Alone(n) => dst[d] = pre[d]
            ELSE IF f.opts.set
            THEN ~Failed(n) /\ (Alone(n) => dst[d] = f.opts.fallback)
            ELSE ~Failed(n) /\ (Alone(n) => dst[d] = pre[d])

\* C3 witness: a required field with a fallback, nonEmpty and skipEmpty was
\* not found: it failed as required and its destination is not the fallback.
C3_Witness ==
  /\ pc = "done"
  /\ \E n \in Registered :
       /\ ~TableAnswer(n).ok /\ ~TableAnswer(n).panic
       /\ fields[n].opts.required /\ fields[n].opts.set
       /\ fields[n].opts.nonEmpty /\ fields[n].opts.skipEmpty
       /\ Failed(n) /\ ErrorOf(n).msg = "field is required"
       /\ dst[fields[n].value] # fields[n].opts.fallback

\* C4: after Parse, a field whose lookup reported found with an empty text
\* has failed with "field is declared but empty: cannot be empty" when
\* nonEmpty is set, skipEmpty or not; else, when skipEmpty is set, has
\* succeeded with its destination as it was (not converted, not the
\* fallback); else has the outcome of converting the empty text.
C4_FoundEmptyPolicy ==
  pc = "done" =>
    \A n \in Registered :
      LET a == TableAnswer(n)
          f == fields[n]
          d == f.value
          r == valueParse(DstType(d), pre[d], <<>>)
      IN  (a.ok /\ a.text = <<>>) =>
            IF f.opts.nonEmpty
            THEN /\ Failed(n)
                 /\ ErrorOf(n) = Err("field is declared but empty: cannot be empty", <<>>)
            ELSE IF f.opts.skipEmpty
            THEN ~Failed(n) /\ (Alone(n) => dst[d] = pre[d])
            ELSE /\ Failed(n) <=> r.err # NoErr
                 /\ Failed(n) => ErrorOf(n) = r.err
                 /\ Alone(n) => dst[d] = r.val

\* C4 witness: a field with nonEmpty and skipEmpty was found empty and
\* failed, while a string field without either was found empty and now
\* holds the empty string.
C4_Witness ==
  /\ pc = "done"
  /\ \E n \in Registered :
       /\ TableAnswer(n).ok /\ TableAnswer(n).text = <<>>
       /\ fields[n].opts.nonEmpty /\ fields[n].opts.skipEmpty
       /\ Failed(n)
  /\ \E n \in Registered :
       /\ TableAnswer(n).ok /\ TableAnswer(n).text = <<>>
       /\ ~fields[n].opts.nonEmpty /\ ~fields[n].opts.skipEmpty
       /\ fields[n].value = "s" /\ dst["s"] = StrV(<<>>)

\* C5 (as claimed): when Parse returns no error, every required field was
\* found by the lookup and its destination was populated during the Parse:
\* it no longer holds its old value.
C5_RequiredPopulated ==
  (pc = "done" /\ result = <<>>) =>
    \A n \in Registered :
      (fields[n].opts.required /\ Alone(n)) =>
        TableAnswer(n).ok /\ dst[fields[n].value] # pre[fields[n].value]

\* The field n raises a runtime fault when it is processed: its lookup or
\* its conversion panics.
Faults(n) == fieldBody(n, fields[n], pre[fields[n].value]).fault

\* Parse over the names ns alone, in this order, from the destinations d:
\* the destinations and the error records it ends with.
RECURSIVE Replay(_, _)
Replay(ns, d) ==
  IF ns = <<>> THEN [dst |-> d, errs |-> <<>>]
  ELSE LET n    == Head(ns)
           r    == parseField(n, fields[n], d[fields[n].value])
           rest == Replay(Tail(ns), [d EXCEPT ![fields[n].value] = r.val])
       IN  [dst  |-> rest.dst,
            errs |-> (IF r.err # NoErr THEN <<Record(n, r.err)>> ELSE <<>>)
                     \o rest.errs]

\* C1 (as claimed): a runtime fault raised by the lookup or the converter
\* of a field never leaves Parse; Parse processes every registered field;
\* every field that faulted has an error record; and every field that did
\* not fault has the outcome and the destination value it has when Parse
\* runs over the fields that did not fault alone, in the same order.
C1_PerFieldIsolation ==
  /\ pc # "panicked"
  /\ pc = "done" =>
       LET alone == Replay(SelectSeq(order, LAMBDA n : ~Faults(n)), pre)
       IN  /\ Range(order) = Registered
           /\ \A n \in Registered : Faults(n) => Failed(n)
           /\ SelectSeq(errs, LAMBDA e : ~Faults(e.name)) = alone.errs
           /\ \A n \in Registered :
                ~Faults(n) => dst[fields[n].value] = alone.dst[fields[n].value]

EffArgs == IF Len(argv) = 0 THEN osArgs ELSE argv

\* The i-th argument is a flag; it carries no '='.
IsFlag(i) == HasPrefix(EffArgs[i], "-")
NoEq(i) == IndexOf(EffArgs[i], "=") = 0

\* The i-th argument is a flag without '=' that no value argument follows.
ValueLess(i) ==
  IsFlag(i) /\ NoEq(i) /\ (i = Len(EffArgs) \/ IsFlag(i + 1))

\* The lower-cased, underscore-to-dash name of a flag or of a looked-up name.
DashName(s) == ReplaceAll(ToLower(TrimLeftCutset(s, "-")), "_", "-")

\* The i-th argument is positional and follows no pending flag.
Positional(i) ==
  ~IsFlag(i) /\ (i = 1 \/ ~(IsFlag(i - 1) /\ NoEq(i - 1)))

\* The arguments from the i-th on without those positional ones.
RECURSIVE Kept(_)
Kept(i) ==
  IF i > Len(EffArgs) THEN <<>>
  ELSE (IF Positional(i) THEN <<>> ELSE <<EffArgs[i]>>) \o Kept(i + 1)

\* C11 (as claimed): every flag argument that carries no '=' and is not
\* followed by a value argument (the next argument is a flag, or it is the
\* last argument) is reported by the lookup as found with the text "true"
\* under its lower-cased, underscore-to-dash name; and the positional
\* arguments that follow no pending flag are ignored: the lookup answers as
\* it does for the list without them.
C11_ValueLessFlags ==
  lpc = "done" =>
    /\ \A i \in 1..Len(EffArgs) :
         (ValueLess(i) /\ DashName(EffArgs[i]) = DashName(lkey)) =>
           lres.ok /\ lres.text = TrueText
    /\ LET o == flagLookup(argsLoop(Kept(1), 1, <<>>, <<>>), lkey)
       IN  lres.ok = o.ok /\ lres.text = o.text

\* The orders in which the loop of Parse may process the registered fields.
Orders ==
  {s \in [1..Cardinality(Registered) -> Registered] :
     \A i, j \in DOMAIN s : i # j => s[i] # s[j]}

\* C12 (as claimed): what Parse returns and what every destination holds
\* afterwards are the same for every order in which the registered fields
\* are processed, also when several names share a destination.
C12_OrderIndependence ==
  pc = "done" =>
    \A s \in Orders :
      LET other == Replay(s, pre)
      IN  parseReturn(other.errs) = result /\ other.dst = dst

=============================================================================
